---- MODULE Spec2Model ----
(***************************************************************************)
(* A model of the AI Agents Directory scraper: the page fetch with retries *)
(* (AIDirectoryScraper._safe_request), the listing extraction, the         *)
(* enrichment of one item and the scrape command with its checkpoint file. *)
(***************************************************************************)
EXTENDS Integers, Sequences, FiniteSets, TLC

(* ------------------------------ bounds -------------------------------- *)

\* the largest retry budget a standalone call of _safe_request is given
MaxRetries == 5
\* the largest number of anchors on a listing page (standalone listing call)
MaxAnchors == 3
\* the largest number of "Load More" clicks a page of the crawled site takes
MaxClicks == 2
\* the largest number of anchors on all listing pages of the crawled site
MaxItems == 2
\* the largest number of failed checkpoint writes in one run
MaxSaveFaults == 1
\* the largest number of links on a categories page (standalone discovery)
MaxLinks == 3
\* the largest number of clicks the page of the standalone pagination lets
\* one call make
MaxDrainClicks == 201
\* the largest count of consecutive clicks that added no item that is kept
MaxStale == 3

(* ------------------------- program constants -------------------------- *)

\* _safe_request(url, retries = 3)
DefaultRetries == 3
\* len(page_source) < 1000 is "too short"
MinPageLen == 1000
\* time.sleep(min(2 ** attempt, 3))
BackoffCap == 3

(* ------------------------------ values -------------------------------- *)

\* Python's None
NoneVal == [kind |-> "None"]

\* the lengths a read of driver.page_source can have: empty, just below the
\* guard, at the guard
PageLens == {0, MinPageLen - 1, MinPageLen}

\* what can raise inside one attempt: driver.get, the two waits, the length
\* guard, or the second read of driver.page_source
Faults == {"navigation", "wait", "too_short", "read"}

Html(u, n) == [kind |-> "html", url |-> u, len |-> n]

\* Python truthiness of an Optional[str]
Truthy(v) == v.kind = "html" /\ v.len > 0

RECURSIVE Pow2(_)
Pow2(n) == IF n = 0 THEN 1 ELSE 2 * Pow2(n - 1)

Min(a, b) == IF a < b THEN a ELSE b

SeqsUpTo(S, n) == UNION {[1..k -> S] : k \in 0..n}

Prefix(s, k) == SubSeq(s, 1, k)

(* ------------------------------- urljoin ------------------------------ *)

\* A href is the sequence of the segments of an absolute path:
\* "/agent/./a" is <<"agent", ".", "a">>.

RECURSIVE RemoveDots(_, _)
\* the dot segments of a path resolved as urljoin resolves them: "." is
\* dropped, ".." drops the segment before it, and a path that ends in a dot
\* segment ends in "/" (an empty last segment)
RemoveDots(segs, acc) ==
    IF segs = <<>> THEN acc
    ELSE LET s == Head(segs)
             last == Len(segs) = 1
         IN  IF s = "."
             THEN RemoveDots(Tail(segs), IF last THEN Append(acc, "") ELSE acc)
             ELSE IF s = ".."
             THEN LET up == IF acc = <<>> THEN acc
                            ELSE Prefix(acc, Len(acc) - 1)
                  IN  RemoveDots(Tail(segs),
                                 IF last THEN Append(up, "") ELSE up)
             ELSE RemoveDots(Tail(segs), Append(acc, s))

\* urljoin(self.base_url, href) for a href that is an absolute path
urljoin(base, href) == [base |-> base, path |-> RemoveDots(href, <<>>)]

BaseUrl == "https://aiagentsdirectory.com"

\* f"{self.base_url}/categories"
CategoriesUrl == [base |-> BaseUrl, path |-> <<"categories">>]

NoUrl == [base |-> "", path |-> <<>>]

(* ------------------------------- pages -------------------------------- *)

\* An anchor of a listing page: its href, the text of its h3 (the name) and
\* of its p (the description).
Block(h, n) == [href |-> h, name |-> n, desc |-> "d", fault |-> FALSE]

\* an anchor whose attributes or texts cannot be read: a read raises
FaultyBlock(h, n) == [Block(h, n) EXCEPT !.fault = TRUE]

\* the selector a.block[href^="/agent"]
MatchesAgent(b) == Len(b.href) >= 1 /\ b.href[1] = "agent"

\* Agent(name, url, description, source_url), info = None
Agent(n, u, d, src) ==
    [kind |-> "Agent", name |-> n, url |-> u, source_url |-> src,
     description |-> d, info |-> NoneVal]

\* the url of the page of category c
CategoryUrl(c) == urljoin(BaseUrl, <<"category", c>>)

UrlX == CategoryUrl("x")
UrlY == CategoryUrl("y")

(* ------------------------- the JSON documents ------------------------- *)

\* JSON null, and the JSON object of an AgentInfo
JNull == [kind |-> "null"]
JInfo(id) == [id |-> id]

\* an AgentInfo object, as the extraction capability returns it
AgentInfo(id) == [kind |-> "AgentInfo", id |-> id]

\* json.load of one object of update.json: a dict, its null a None
Load(obj) ==
    [kind |-> "dict", name |-> obj.name, url |-> obj.url,
     source_url |-> obj.source_url, description |-> obj.description,
     info |-> IF obj.info = JNull THEN NoneVal
              ELSE [kind |-> "dict", id |-> obj.info.id]]

\* obj.info.model_dump() if obj.info else None; a dict's value as it is
EncodeInfo(v) == IF v = NoneVal THEN JNull ELSE JInfo(v.id)

\* AgentEncoder.default for an Agent, the encoder's own rule for a dict
Encode(e) ==
    [name |-> e.name, url |-> e.url, source_url |-> e.source_url,
     description |-> e.description, info |-> EncodeInfo(e.info)]

\* a dump of the newest entry alone
EncodeLast(agents) ==
    IF agents = <<>> THEN <<>> ELSE <<Encode(agents[Len(agents)])>>

\* json.dump(agents, f, cls=AgentEncoder): the array written
EncodeAll(agents) == [i \in 1..Len(agents) |-> Encode(agents[i])]

VARIABLES
    fpc,        \* position of _safe_request: "idle", "attempt", "returned"
    furl,       \* its url argument
    retries,    \* its retries argument
    attempt,    \* the loop variable of "for attempt in range(retries)"
    navs,       \* number of driver.get calls made by this call
    outcomes,   \* "ok" or "fail" for each attempt made, in order
    lastCause,  \* what raised in the last failed attempt ("none" if nothing)
    lenChecked, \* the length the guard of the last attempt saw (-1: not read)
    sleeps,     \* the backoff waits made, in order
    fresult,    \* the value returned
    driverUrl,  \* the page the browser session shows
    pages,      \* the site: page url -> the anchors of the page, in order
    lpc,        \* position of get_agents_from_category
    lurl,       \* its category_url argument
    shown,      \* how many anchors of the page are in the DOM
    clicks,     \* "Load More" clicks made by this call
    lastControl,\* what the last check of the "Load More" button found
    stale,      \* consecutive clicks, up to now, that added no item url
    budget,     \* how many clicks the site's "Load More" button takes
    lresult,    \* the list returned
    update_json,    \* ./update.json: name -> JSON object
    file,           \* ./ai_agents_data.json: its state and the items in it
    pc,             \* position of the scrape command
    run,            \* which run of the command this is
    session,        \* the browser session: "none", "open", "closed"
    exitCode,       \* the exit code of the command (-1 while it runs)
    agent_map,      \* the loaded update.json
    categories,     \* the dict get_categories returned, in insertion order
    ci,             \* index of the category of the outer loop
    category_agents,\* the list of the current category
    ai,             \* index of the agent of the inner loop
    all_agents,     \* the accumulated result list
    processed,      \* the agents processed so far, and whether each was enriched
    lastDetail,     \* the call of get_agent_details of this iteration
    enrichCalls,    \* calls of get_agent_details in this run
    nsaves,         \* calls of save_progress in this run
    lastSaved,      \* the argument of the last call of save_progress
    saveFaults,     \* failed writes in this run
    firstFinal,     \* the file and the calls at the end of the first run
    listings,       \* the lists get_agents_from_category returned, in order
    stats           \* the counters of the standalone crawler

fetchVars == <<fpc, furl, retries, attempt, navs, outcomes, lastCause,
               lenChecked, sleeps, fresult>>

listingVars == <<lpc, lurl, shown, clicks, lastControl, stale, lresult>>

siteVars == <<pages, update_json, budget>>

scrapeVars == <<file, pc, run, session, exitCode, agent_map, categories, ci,
                category_agents, ai, all_agents, processed, lastDetail,
                enrichCalls, nsaves, lastSaved, saveFaults, firstFinal,
                   listings, stats>>

vars == <<fetchVars, driverUrl, siteVars, listingVars, scrapeVars>>

(* --------------------------- _safe_request ---------------------------- *)

\* for attempt in range(retries)
InRange(a, n) == a < n

\* a last-attempt check that fires one attempt early
IsLastAttemptEarly(a, n) == a = n - 2

\* if attempt == retries - 1
IsLastAttempt(a, n) == a = n - 1

\* a wait that doubles without a ceiling
BackoffUncapped(a) == Pow2(a)

\* min(2 ** attempt, 3)
Backoff(a) == Min(Pow2(a), BackoffCap)

\* if len(self.driver.page_source) < 1000
TooShort(n) == n < MinPageLen

\* an except clause that lets the timeout of a wait through
CaughtButTimeout(cause) == cause \in Faults \ {"wait"}

\* except Exception as e
Caught(cause) == cause \in Faults

\* the call: the state at entry of the function
safe_request_call(u, n) ==
    /\ fpc' = "attempt"
    /\ furl' = u
    /\ retries' = n
    /\ attempt' = 0
    /\ navs' = 0
    /\ outcomes' = <<>>
    /\ lastCause' = "none"
    /\ lenChecked' = -1
    /\ sleeps' = <<>>
    /\ fresult' = NoneVal

\* no call in progress
FetchIdle ==
    /\ fpc = "idle"
    /\ furl = NoUrl
    /\ retries = 0
    /\ attempt = 0
    /\ navs = 0
    /\ outcomes = <<>>
    /\ lastCause = "none"
    /\ lenChecked = -1
    /\ sleeps = <<>>
    /\ fresult = NoneVal

\* the caller has taken the returned value
safe_request_taken ==
    /\ fpc' = "idle"
    /\ furl' = NoUrl
    /\ retries' = 0
    /\ attempt' = 0
    /\ navs' = 0
    /\ outcomes' = <<>>
    /\ lastCause' = "none"
    /\ lenChecked' = -1
    /\ sleeps' = <<>>
    /\ fresult' = NoneVal

\* one attempt in which nothing raises: the page is long enough at the
\* guard, and the page source is read again for the return value
AttemptSucceeds ==
    /\ fpc = "attempt"
    /\ InRange(attempt, retries)
    /\ \E seen \in PageLens, returned \in PageLens :
          /\ ~TooShort(seen)
          /\ lenChecked' = seen
          /\ fresult' = Html(furl, returned)
    /\ navs' = navs + 1
    /\ driverUrl' = furl
    /\ outcomes' = Append(outcomes, "ok")
    /\ lastCause' = "none"
    /\ fpc' = "returned"
    /\ UNCHANGED <<furl, retries, attempt, sleeps>>
    /\ UNCHANGED <<siteVars, listingVars, scrapeVars>>

\* one attempt in which something raises: the except clause returns None on
\* the last attempt and sleeps otherwise
AttemptFails ==
    /\ fpc = "attempt"
    /\ InRange(attempt, retries)
    /\ \E cause \in Faults, seen \in PageLens \cup {-1} :
          /\ cause \in {"navigation", "wait"} => seen = -1
          /\ cause = "too_short" => seen # -1 /\ TooShort(seen)
          /\ cause = "read" => seen # -1 /\ ~TooShort(seen)
          /\ lastCause' = cause
          /\ lenChecked' = seen
          /\ driverUrl' = IF cause = "navigation" THEN driverUrl ELSE furl
          /\ navs' = navs + 1
          /\ outcomes' = Append(outcomes, "fail")
          /\ IF ~Caught(cause)
             THEN /\ fpc' = "raised"
                  /\ UNCHANGED <<attempt, sleeps, fresult>>
             ELSE IF IsLastAttempt(attempt, retries)
             THEN /\ fpc' = "returned"
                  /\ fresult' = NoneVal
                  /\ UNCHANGED <<attempt, sleeps>>
             ELSE /\ sleeps' = Append(sleeps, Backoff(attempt))
                  /\ attempt' = attempt + 1
                  /\ UNCHANGED <<fpc, fresult>>
    /\ UNCHANGED <<furl, retries>>
    /\ UNCHANGED <<siteVars, listingVars, scrapeVars>>

\* the loop ran out (retries = 0): the trailing "return None"
LoopExhausted ==
    /\ fpc = "attempt"
    /\ ~InRange(attempt, retries)
    /\ fpc' = "returned"
    /\ fresult' = NoneVal
    /\ UNCHANGED <<furl, retries, attempt, navs, outcomes, lastCause,
                   lenChecked, sleeps, driverUrl>>
    /\ UNCHANGED <<siteVars, listingVars, scrapeVars>>

(* ---------------------- get_agents_from_category ---------------------- *)

\* a check of the url alone
UrlOnly(name, url) == url # NoUrl

\* if name and url
NameAndUrl(name, url) == name # "" /\ url # NoUrl

RECURSIVE ExtractFrom(_, _, _, _)
\* the loop over the blocks: a block whose processing raises is logged and
\* left out (except Exception), a block whose href was seen is skipped, a
\* block with a name is appended and its href (not its url) is remembered
ExtractFrom(blocks, agents, seen_urls, category_url) ==
    IF blocks = <<>> THEN agents
    ELSE LET block == Head(blocks)
             href == block.href
             name == block.name
             url == urljoin(BaseUrl, href)
         IN  IF block.fault
             THEN ExtractFrom(Tail(blocks), agents, seen_urls, category_url)
             ELSE IF href = <<>> \/ href \in seen_urls
             THEN ExtractFrom(Tail(blocks), agents, seen_urls, category_url)
             ELSE IF NameAndUrl(name, url)
             THEN ExtractFrom(Tail(blocks),
                              Append(agents,
                                     Agent(name, url, block.desc, category_url)),
                              seen_urls \cup {href}, category_url)
             ELSE ExtractFrom(Tail(blocks), agents, seen_urls, category_url)

\* doc('a.block[href^="/agent"]') and the loop over it
ExtractAgents(dom, category_url) ==
    ExtractFrom(SelectSeq(dom, MatchesAgent), <<>>, {}, category_url)

\* the anchors in the DOM of the page the browser shows
Dom == IF driverUrl \in DOMAIN pages THEN Prefix(pages[driverUrl], shown)
       ELSE <<>>

\* what a check of the "Load More" button can find: find_element raises
\* (no such button), or the button is there and is hidden, disabled, or
\* displayed and enabled
Controls == {"absent", "hidden", "disabled", "ready"}

\* find_element returned an element
Found(c) == c # "absent"

\* a check that lets a disabled button through
BreaksIfHidden(c) == c = "hidden"

\* if not load_more or not load_more.is_displayed() or
\*    not load_more.is_enabled(): break
Breaks(c) == c = "hidden" \/ c = "disabled"

\* the urls of the items that can be extracted from a DOM
ItemUrls(dom) ==
    LET agents == ExtractAgents(dom, NoUrl)
    IN  {agents[i].url : i \in 1..Len(agents)}

ListingIdle ==
    /\ lpc = "idle"
    /\ lurl = NoUrl
    /\ shown = 0
    /\ clicks = 0
    /\ lastControl = "none"
    /\ stale = 0
    /\ lresult = <<>>

\* the call: the state at entry of the function, which starts with
\* self._safe_request(category_url)
get_agents_call(u) ==
    /\ lpc' = "fetch"
    /\ lurl' = u
    /\ clicks' = 0
    /\ lresult' = <<>>
    /\ UNCHANGED <<shown, lastControl, stale>>
    /\ safe_request_call(u, DefaultRetries)

get_agents_taken ==
    /\ lpc' = "idle"
    /\ lurl' = NoUrl
    /\ shown' = 0
    /\ clicks' = 0
    /\ lastControl' = "none"
    /\ stale' = 0
    /\ lresult' = <<>>

\* if not (page_source := self._safe_request(category_url)): return []
ListingNoPage ==
    /\ lpc = "fetch"
    /\ fpc = "returned"
    /\ ~Truthy(fresult)
    /\ lresult' = <<>>
    /\ lpc' = "returned"
    /\ safe_request_taken
    /\ UNCHANGED <<lurl, shown, clicks, lastControl, stale, driverUrl,
                   siteVars, scrapeVars>>

\* the page was fetched: some first part of its anchors is in the DOM
ListingPage ==
    /\ lpc = "fetch"
    /\ fpc = "returned"
    /\ Truthy(fresult)
    /\ \E k \in 0..Len(pages[lurl]) : shown' = k
    /\ lpc' = "paginate"
    /\ safe_request_taken
    /\ UNCHANGED <<lurl, clicks, lastControl, stale, lresult, driverUrl,
                   siteVars, scrapeVars>>

\* one turn of "while True" that clicks: the button is found, displayed and
\* enabled; the click puts more anchors (or none) into the DOM
LoadMore ==
    /\ lpc = "paginate"
    /\ clicks < budget
    /\ \E c \in Controls :
          /\ Found(c)
          /\ ~Breaks(c)
          /\ lastControl' = c
    /\ clicks' = clicks + 1
    /\ \E k \in shown..Len(pages[lurl]) :
          /\ shown' = k
          /\ stale' = IF ItemUrls(Prefix(pages[lurl], k)) # ItemUrls(Dom)
                      THEN 0
                      ELSE Min(stale + 1, MaxStale)
    /\ UNCHANGED <<lpc, lurl, lresult, driverUrl, siteVars, scrapeVars, fetchVars>>

\* one turn of "while True" that breaks: the button is not found (except:
\* break) or it is not displayed or not enabled (if ...: break)
LoadMoreEnds ==
    /\ lpc = "paginate"
    /\ \E c \in Controls :
          /\ ~Found(c) \/ Breaks(c)
          /\ lastControl' = c
    /\ lpc' = "extract"
    /\ UNCHANGED <<lurl, shown, clicks, stale, lresult, driverUrl, siteVars,
                   scrapeVars, fetchVars>>

\* one turn of "while True" in which load_more.click() raises: except: break
ClickRaises ==
    /\ lpc = "paginate"
    /\ \E c \in Controls :
          /\ Found(c)
          /\ ~Breaks(c)
          /\ lastControl' = c
    /\ lpc' = "extract"
    /\ UNCHANGED <<lurl, shown, clicks, stale, lresult, driverUrl, siteVars,
                   scrapeVars, fetchVars>>

\* the blocks of the page as it is now are parsed and the agents returned
Extract ==
    /\ lpc = "extract"
    /\ lresult' = ExtractAgents(Dom, lurl)
    /\ lpc' = "returned"
    /\ lastControl' = "none"
    /\ stale' = 0
    /\ UNCHANGED <<lurl, shown, clicks, driverUrl, siteVars, scrapeVars, fetchVars>>

\* the page could not be parsed: pq(self.driver.page_source) raises (the
\* session is gone), outside any try
ExtractRaises ==
    /\ lpc = "extract"
    /\ lpc' = "raised"
    /\ lastControl' = "none"
    /\ stale' = 0
    /\ UNCHANGED <<lurl, shown, clicks, lresult, driverUrl, siteVars,
                   scrapeVars, fetchVars>>

(* ---------------------------- get_categories -------------------------- *)

\* the selector a[href^="/category/"]
MatchesCategory(b) == Len(b.href) >= 2 /\ b.href[1] = "category"

\* categories[name] = url: a new key goes last, a known key keeps its place
DictSet(d, name, url) ==
    IF \E i \in 1..Len(d) : d[i].name = name
    THEN [i \in 1..Len(d) |->
             IF d[i].name = name THEN [name |-> name, url |-> url] ELSE d[i]]
    ELSE Append(d, [name |-> name, url |-> url])

RECURSIVE CategoriesFrom(_, _)
\* the loop over the links: if href and name
CategoriesFrom(links, cats) ==
    IF links = <<>> THEN cats
    ELSE LET link == Head(links)
         IN  IF link.href # <<>> /\ link.name # ""
             THEN CategoriesFrom(Tail(links),
                                 DictSet(cats, link.name,
                                         urljoin(BaseUrl, link.href)))
             ELSE CategoriesFrom(Tail(links), cats)

\* get_categories on the page source it was given
GetCategories(page) == CategoriesFrom(SelectSeq(page, MatchesCategory), <<>>)

(* -------------------------- get_agent_details ------------------------- *)

\* what one call can meet: the page text cannot be fetched, the extraction
\* fails, or both succeed
DetailOutcomes == {"crawl_fails", "extract_fails", "ok"}

\* the records the extraction capability returns for new items
Infos == {AgentInfo("i1")}

\* the info is set before the extraction is known to have succeeded
get_agent_details_eager(agent, outcome, info) ==
    IF outcome = "crawl_fails" THEN agent ELSE [agent EXCEPT !.info = info]

\* try: ... agent.info = agent_info; except Exception: log; return agent
get_agent_details(agent, outcome, info) ==
    IF outcome = "ok" THEN [agent EXCEPT !.info = info] ELSE agent

NoDetail == [kind |-> "none"]

(* ------------------------------- scrape ------------------------------- *)

\* None == x
None_eq(x) == x = NoneVal

\* an insertion at the front of the list
list_insert_front(list, x) == <<x>> \o list

\* all_agents.append(x)
list_append(list, x) == Append(list, x)

\* a check of the name alone
NeedsDetailsByName(agent, map) == agent.name \notin DOMAIN map

\* if not agent.name in agent_map or None == agent_map[agent.name].get('info')
NeedsDetails(agent, map) ==
    IF agent.name \notin DOMAIN map THEN TRUE
    ELSE None_eq(map[agent.name].info)

EmptyMap == [n \in {} |-> NoneVal]

NoFile == [st |-> "absent", items |-> <<>>]

NoFinal == [kind |-> "none"]

\* self.stats of the standalone crawler, as __init__ sets it
NoStats ==
    [total_categories |-> 0, total_agents |-> 0, agents_with_details |-> 0,
     failed_details |-> 0]

ScrapeIdle ==
    /\ file = NoFile
    /\ pc = "idle"
    /\ run = 0
    /\ session = "none"
    /\ exitCode = -1
    /\ agent_map = EmptyMap
    /\ categories = <<>>
    /\ ci = 0
    /\ category_agents = <<>>
    /\ ai = 0
    /\ all_agents = <<>>
    /\ processed = <<>>
    /\ lastDetail = NoDetail
    /\ enrichCalls = 0
    /\ nsaves = 0
    /\ lastSaved = <<>>
    /\ saveFaults = 0
    /\ firstFinal = NoFinal
    /\ listings = <<>>
    /\ stats = NoStats

\* json.load of update.json, the scraper is made, get_categories is called
Start ==
    /\ pc = "start"
    /\ agent_map' = [n \in DOMAIN update_json |-> Load(update_json[n])]
    /\ session' = "open"
    /\ safe_request_call(CategoriesUrl, DefaultRetries)
    /\ pc' = "get_categories"
    /\ UNCHANGED <<file, run, exitCode, categories, ci, category_agents, ai,
                   all_agents, processed, lastDetail, enrichCalls, nsaves,
                   lastSaved, saveFaults, firstFinal,
                   listings, stats>>
    /\ UNCHANGED <<driverUrl, siteVars, listingVars>>

\* get_categories returns: {} without a page, the parsed links with one
GetCategoriesReturns ==
    /\ pc = "get_categories"
    /\ fpc = "returned"
    /\ categories' = IF Truthy(fresult) THEN GetCategories(pages[fresult.url])
                     ELSE <<>>
    /\ all_agents' = <<>>
    /\ ci' = 1
    /\ pc' = "categories"
    /\ safe_request_taken
    /\ UNCHANGED <<file, run, session, exitCode, agent_map, category_agents,
                   ai, processed, lastDetail, enrichCalls, nsaves, lastSaved,
                   saveFaults, firstFinal,
                   listings, stats>>
    /\ UNCHANGED <<driverUrl, siteVars, listingVars>>

\* for category_name, category_url in categories.items(): the next category
EnterCategory ==
    /\ pc = "categories"
    /\ ci <= Len(categories)
    /\ get_agents_call(categories[ci].url)
    /\ pc' = "listing"
    /\ UNCHANGED <<file, run, session, exitCode, agent_map, categories, ci,
                   category_agents, ai, all_agents, processed, lastDetail,
                   enrichCalls, nsaves, lastSaved, saveFaults, firstFinal,
                   listings, stats>>
    /\ UNCHANGED <<driverUrl, siteVars>>

\* get_agents_from_category returned its list
ListingReturns ==
    /\ pc = "listing"
    /\ lpc = "returned"
    /\ category_agents' = lresult
    /\ ai' = 1
    /\ listings' = Append(listings, lresult)
    /\ UNCHANGED stats
    /\ pc' = "agents"
    /\ get_agents_taken
    /\ UNCHANGED <<file, run, session, exitCode, agent_map, categories, ci,
                   all_agents, processed, lastDetail, enrichCalls, nsaves,
                   lastSaved, saveFaults, firstFinal>>
    /\ UNCHANGED <<driverUrl, siteVars, fetchVars>>

\* a close that leaves the browser as it is
close_skipped(s) == s
\* close: if self.driver: self.driver.quit()
close(s) == IF s = "open" THEN "closed" ELSE s

\* get_agents_from_category raised: finally: scraper.close(), and the fault
\* ends the command
ListingRaises ==
    /\ pc = "listing"
    /\ lpc = "raised"
    /\ session' = close(session)
    /\ exitCode' = 1
    /\ pc' = "done"
    /\ get_agents_taken
    /\ UNCHANGED <<file, run, agent_map, categories, ci, category_agents, ai,
                   all_agents, processed, lastDetail, enrichCalls, nsaves,
                   lastSaved, saveFaults, firstFinal,
                   listings, stats>>
    /\ UNCHANGED <<driverUrl, siteVars, fetchVars>>

\* the if branch: get_agent_details, append, save_progress is called
EnrichItem ==
    /\ pc = "agents"
    /\ ai <= Len(category_agents)
    /\ LET agent == category_agents[ai]
       IN  /\ NeedsDetails(agent, agent_map)
           /\ \E outcome \in DetailOutcomes, info \in Infos :
                 LET agent_with_details ==
                         get_agent_details(agent, outcome, info)
                 IN  /\ lastDetail' = [kind |-> "call", stub |-> agent,
                                       outcome |-> outcome, info |-> info,
                                       attempts |-> 1,
                                       result |-> agent_with_details]
                     /\ all_agents' =
                            list_append(all_agents, agent_with_details)
                     /\ lastSaved' =
                            list_append(all_agents, agent_with_details)
           /\ processed' = Append(processed,
                                  [stub |-> agent, enriched |-> TRUE])
    /\ enrichCalls' = enrichCalls + 1
    /\ nsaves' = nsaves + 1
    /\ pc' = "save"
    /\ UNCHANGED <<file, run, session, exitCode, agent_map, categories, ci,
                   category_agents, ai, saveFaults, firstFinal,
                   listings, stats>>
    /\ UNCHANGED <<driverUrl, siteVars, listingVars, fetchVars>>

\* the else branch: the loaded entry is appended, save_progress is called
ReuseItem ==
    /\ pc = "agents"
    /\ ai <= Len(category_agents)
    /\ LET agent == category_agents[ai]
       IN  /\ ~NeedsDetails(agent, agent_map)
           /\ all_agents' = list_append(all_agents, agent_map[agent.name])
           /\ lastSaved' = list_append(all_agents, agent_map[agent.name])
           /\ processed' = Append(processed,
                                  [stub |-> agent, enriched |-> FALSE])
    /\ nsaves' = nsaves + 1
    /\ pc' = "save"
    /\ UNCHANGED <<file, run, session, exitCode, agent_map, categories, ci,
                   category_agents, ai, lastDetail, enrichCalls, saveFaults,
                   firstFinal,
                   listings, stats>>
    /\ UNCHANGED <<driverUrl, siteVars, listingVars, fetchVars>>

\* the inner loop is over: on to the next category
CategoryDone ==
    /\ pc = "agents"
    /\ ai > Len(category_agents)
    /\ ci' = ci + 1
    /\ pc' = "categories"
    /\ UNCHANGED <<file, run, session, exitCode, agent_map, categories,
                   category_agents, ai, all_agents, processed, lastDetail,
                   enrichCalls, nsaves, lastSaved, saveFaults, firstFinal,
                   listings, stats>>
    /\ UNCHANGED <<driverUrl, siteVars, listingVars, fetchVars>>

\* save_progress: open(filename, "w") truncates the file
SaveOpens ==
    /\ pc = "save"
    /\ file' = [st |-> "empty", items |-> <<>>]
    /\ pc' = "dump"
    /\ UNCHANGED <<run, session, exitCode, agent_map, categories, ci,
                   category_agents, ai, all_agents, processed, lastDetail,
                   enrichCalls, nsaves, lastSaved, saveFaults, firstFinal,
                   listings, stats>>
    /\ UNCHANGED <<driverUrl, siteVars, listingVars, fetchVars>>

\* save_progress: open raises, the file is as it was; except: log
SaveOpenFails ==
    /\ pc = "save"
    /\ saveFaults < MaxSaveFaults
    /\ saveFaults' = saveFaults + 1
    /\ ai' = ai + 1
    /\ pc' = "agents"
    /\ lastDetail' = NoDetail
    /\ UNCHANGED <<file, run, session, exitCode, agent_map, categories, ci,
                   category_agents, all_agents, processed, 
                   enrichCalls, nsaves, lastSaved, firstFinal,
                   listings, stats>>
    /\ UNCHANGED <<driverUrl, siteVars, listingVars, fetchVars>>

\* save_progress: json.dump writes the whole array and the file is closed
SaveWrites ==
    /\ pc = "dump"
    /\ file' = [st |-> "complete", items |-> EncodeAll(all_agents)]
    /\ ai' = ai + 1
    /\ pc' = "agents"
    /\ lastDetail' = NoDetail
    /\ UNCHANGED <<run, session, exitCode, agent_map, categories, ci,
                   category_agents, all_agents, processed, 
                   enrichCalls, nsaves, lastSaved, saveFaults, firstFinal,
                   listings, stats>>
    /\ UNCHANGED <<driverUrl, siteVars, listingVars, fetchVars>>

\* save_progress: a write raises after part of the array was written (which
\* part is not told apart: the file is no JSON document); except: log
SaveWriteFails ==
    /\ pc = "dump"
    /\ saveFaults < MaxSaveFaults
    /\ saveFaults' = saveFaults + 1
    /\ file' = [st |-> "partial", items |-> <<>>]
    /\ ai' = ai + 1
    /\ pc' = "agents"
    /\ lastDetail' = NoDetail
    /\ UNCHANGED <<run, session, exitCode, agent_map, categories, ci,
                   category_agents, all_agents, processed, 
                   enrichCalls, nsaves, lastSaved, firstFinal,
                   listings, stats>>
    /\ UNCHANGED <<driverUrl, siteVars, listingVars, fetchVars>>

\* the outer loop is over: the last print, finally: scraper.close(), and
\* the command returns
Finish ==
    /\ pc = "categories"
    /\ ci > Len(categories)
    /\ session' = close(session)
    /\ exitCode' = 0
    /\ pc' = "done"
    /\ UNCHANGED <<file, run, agent_map, categories, ci, category_agents, ai,
                   all_agents, processed, lastDetail, enrichCalls, nsaves,
                   lastSaved, saveFaults, firstFinal,
                   listings, stats>>
    /\ UNCHANGED <<driverUrl, siteVars, listingVars, fetchVars>>

(* ------------------------------ the site ------------------------------ *)

CatX == Block(<<"category", "x">>, "X")
CatY == Block(<<"category", "y">>, "Y")

\* the categories page lists no category, one, or two
ScrapeCatPages == {<<>>, <<CatX>>, <<CatX, CatY>>}

\* two items, and a third that has the url of one and the name of the other
ScrapeBlocks == {Block(<<"agent", "a">>, "A"), Block(<<"agent", "b">>, "B"),
                 Block(<<"agent", "b">>, "A")}

\* the sites: a category that the categories page does not list has no page
\* worth telling apart
Sites ==
    {p \in {(CategoriesUrl :> c) @@ (UrlX :> x) @@ (UrlY :> y) :
               c \in ScrapeCatPages,
               x \in SeqsUpTo(ScrapeBlocks, MaxItems),
               y \in SeqsUpTo(ScrapeBlocks, MaxItems)} :
        /\ Len(p[UrlX]) + Len(p[UrlY]) <= MaxItems
        /\ Len(p[CategoriesUrl]) < 1 => p[UrlX] = <<>>
        /\ Len(p[CategoriesUrl]) < 2 => p[UrlY] = <<>>}

\* the object update.json holds for name n: with details or with null
Stored(n, i) ==
    [name |-> n,
     url |-> urljoin(BaseUrl, <<"agent", IF n = "A" THEN "a" ELSE "b">>),
     source_url |-> UrlX, description |-> "d", info |-> i]

\* update.json is empty, holds A with details, or holds A with details and
\* B without or with details
UpdateFiles ==
    {EmptyMap,
     "A" :> Stored("A", JInfo("i0")),
     ("A" :> Stored("A", JInfo("i0"))) @@ ("B" :> Stored("B", JNull)),
     ("A" :> Stored("A", JInfo("i0"))) @@ ("B" :> Stored("B", JInfo("i0")))}

(* ----------------------- one run of the command ----------------------- *)

Init ==
    /\ pages \in Sites
    /\ update_json \in UpdateFiles
    /\ budget = MaxClicks
    /\ driverUrl = NoUrl
    /\ FetchIdle
    /\ ListingIdle
    /\ file = NoFile
    /\ pc = "start"
    /\ run = 1
    /\ session = "none"
    /\ exitCode = -1
    /\ agent_map = EmptyMap
    /\ categories = <<>>
    /\ ci = 0
    /\ category_agents = <<>>
    /\ ai = 0
    /\ all_agents = <<>>
    /\ processed = <<>>
    /\ lastDetail = NoDetail
    /\ enrichCalls = 0
    /\ nsaves = 0
    /\ lastSaved = <<>>
    /\ saveFaults = 0
    /\ firstFinal = NoFinal
    /\ listings = <<>>
    /\ stats = NoStats

Next ==
    \/ Start
    \/ AttemptSucceeds
    \/ AttemptFails
    \/ GetCategoriesReturns
    \/ EnterCategory
    \/ ListingNoPage
    \/ ListingPage
    \/ LoadMore
    \/ LoadMoreEnds
    \/ ClickRaises
    \/ Extract
    \/ ExtractRaises
    \/ ListingReturns
    \/ ListingRaises
    \/ EnrichItem
    \/ ReuseItem
    \/ SaveOpens
    \/ SaveOpenFails
    \/ SaveWrites
    \/ SaveWriteFails
    \/ CategoryDone
    \/ Finish

Spec == Init /\ [][Next]_vars

(* ------------- a standalone call of _safe_request --------------------- *)

InitFetch ==
    /\ fpc = "attempt"
    /\ furl = CategoriesUrl
    /\ retries \in 0..MaxRetries
    /\ attempt = 0
    /\ navs = 0
    /\ outcomes = <<>>
    /\ lastCause = "none"
    /\ lenChecked = -1
    /\ sleeps = <<>>
    /\ fresult = NoneVal
    /\ driverUrl = NoUrl
    /\ pages = EmptyMap
    /\ update_json = EmptyMap
    /\ budget = 0
    /\ ListingIdle
    /\ ScrapeIdle

NextFetch ==
    \/ AttemptSucceeds
    \/ AttemptFails
    \/ LoopExhausted

SpecFetch == InitFetch /\ [][NextFetch]_vars

(* --------- a standalone call of get_agents_from_category -------------- *)

\* the category page of the standalone call
ListingUrl == UrlX

ListingHrefs == {<<"agent", "a">>, <<"agent", ".", "a">>, <<"agent", "b">>}

\* every href with no name and with two names, an anchor that the
\* selector does not match, and one that cannot be read
ListingBlocks ==
    {Block(h, n) : h \in ListingHrefs, n \in {"", "A", "B"}}
        \cup {Block(<<"tools", "a">>, "A"), FaultyBlock(<<"agent", "a">>, "A")}

\* the call is made on a page whose button takes one click: what a click
\* can add is a longer first part of the page
InitListing ==
    /\ pages \in [{ListingUrl} -> SeqsUpTo(ListingBlocks, MaxAnchors)]
    /\ update_json = EmptyMap
    /\ budget = 1
    /\ ScrapeIdle
    /\ driverUrl = NoUrl
    /\ lpc = "fetch"
    /\ lurl = ListingUrl
    /\ shown = 0
    /\ clicks = 0
    /\ lastControl = "none"
    /\ stale = 0
    /\ lresult = <<>>
    /\ fpc = "attempt"
    /\ furl = ListingUrl
    /\ retries = DefaultRetries
    /\ attempt = 0
    /\ navs = 0
    /\ outcomes = <<>>
    /\ lastCause = "none"
    /\ lenChecked = -1
    /\ sleeps = <<>>
    /\ fresult = NoneVal

NextListing ==
    \/ AttemptSucceeds
    \/ AttemptFails
    \/ ListingNoPage
    \/ ListingPage
    \/ LoadMore
    \/ LoadMoreEnds
    \/ ClickRaises
    \/ Extract
    \/ ExtractRaises

SpecListing == InitListing /\ [][NextListing]_vars

(* ------------- a standalone call on a page that re-renders ------------ *)

\* two items with a name each
DrainBlocks == {Block(<<"agent", "a">>, "A"), Block(<<"agent", "b">>, "B")}

\* the call is the standalone call of get_agents_from_category, on a small
\* page whose button takes many clicks
InitDrain ==
    /\ pages \in [{ListingUrl} -> SeqsUpTo(DrainBlocks, MaxItems)]
    /\ update_json = EmptyMap
    /\ budget = MaxDrainClicks
    /\ ScrapeIdle
    /\ driverUrl = NoUrl
    /\ lpc = "fetch"
    /\ lurl = ListingUrl
    /\ shown = 0
    /\ clicks = 0
    /\ lastControl = "none"
    /\ stale = 0
    /\ lresult = <<>>
    /\ fpc = "attempt"
    /\ furl = ListingUrl
    /\ retries = DefaultRetries
    /\ attempt = 0
    /\ navs = 0
    /\ outcomes = <<>>
    /\ lastCause = "none"
    /\ lenChecked = -1
    /\ sleeps = <<>>
    /\ fresult = NoneVal

SpecDrain == InitDrain /\ [][NextListing]_vars

(* -------------------- two runs of the command ------------------------- *)

\* the command is run again: a new process, a new browser, the same
\* update.json (no code writes it) and the file the first run left
RunAgain ==
    /\ pc = "done"
    /\ run = 1
    /\ run' = 2
    /\ firstFinal' = [kind |-> "final", file |-> file,
                      exitCode |-> exitCode, enrichCalls |-> enrichCalls,
                      stubs |-> [i \in 1..Len(processed) |->
                                    processed[i].stub]]
    /\ pc' = "start"
    /\ session' = "none"
    /\ exitCode' = -1
    /\ agent_map' = EmptyMap
    /\ categories' = <<>>
    /\ ci' = 0
    /\ category_agents' = <<>>
    /\ ai' = 0
    /\ all_agents' = <<>>
    /\ processed' = <<>>
    /\ lastDetail' = NoDetail
    /\ enrichCalls' = 0
    /\ nsaves' = 0
    /\ lastSaved' = <<>>
    /\ saveFaults' = 0
    /\ listings' = <<>>
    /\ driverUrl' = NoUrl
    /\ UNCHANGED stats
    /\ UNCHANGED <<file, siteVars, listingVars, fetchVars>>

\* the runs in which no page load, no parse and no write fails
NextRerun ==
    \/ Start
    \/ AttemptSucceeds
    \/ GetCategoriesReturns
    \/ EnterCategory
    \/ ListingNoPage
    \/ ListingPage
    \/ LoadMore
    \/ LoadMoreEnds
    \/ Extract
    \/ ListingReturns
    \/ EnrichItem
    \/ ReuseItem
    \/ SaveOpens
    \/ SaveWrites
    \/ CategoryDone
    \/ Finish
    \/ RunAgain

SpecRerun == Init /\ [][NextRerun]_vars

(* ------------- a standalone call of get_categories -------------------- *)

\* the path fragments the standalone crawler skips:
\* ['/blog', '/sponsor', '/submit', '/login']
Denylist == {"blog", "sponsor", "submit", "login"}

\* any(skip in href.lower() for skip in [...])
Denylisted(href) == \E i \in 1..Len(href) : href[i] \in Denylist

\* the links a categories page can hold: two categories and two links to
\* pages that are no categories, each with a heading of its own
CategoryLinks ==
    {CatX, CatY, Block(<<"category", "blog">>, "Blog"),
     Block(<<"category", "login">>, "Login")}

\* the categories pages: every link at most once
CategoryPages ==
    {p \in SeqsUpTo(CategoryLinks, MaxLinks) :
        \A i, j \in 1..Len(p) : p[i] = p[j] => i = j}

InitCategories ==
    /\ pages \in [{CategoriesUrl} -> CategoryPages]
    /\ update_json = EmptyMap
    /\ budget = 0
    /\ driverUrl = NoUrl
    /\ FetchIdle
    /\ ListingIdle
    /\ file = NoFile
    /\ pc = "start"
    /\ run = 1
    /\ session = "none"
    /\ exitCode = -1
    /\ agent_map = EmptyMap
    /\ categories = <<>>
    /\ ci = 0
    /\ category_agents = <<>>
    /\ ai = 0
    /\ all_agents = <<>>
    /\ processed = <<>>
    /\ lastDetail = NoDetail
    /\ enrichCalls = 0
    /\ nsaves = 0
    /\ lastSaved = <<>>
    /\ saveFaults = 0
    /\ firstFinal = NoFinal
    /\ listings = <<>>
    /\ stats = NoStats

NextCategories ==
    \/ Start
    \/ AttemptSucceeds
    \/ AttemptFails
    \/ GetCategoriesReturns

SpecCategories == InitCategories /\ [][NextCategories]_vars

(* ------------------- a run that is interrupted ------------------------ *)

\* the run is cancelled the only way the command knows: the interrupt
\* (KeyboardInterrupt) is raised wherever the run is; no "except Exception"
\* takes it, an open file is closed as it is, finally: scraper.close(), and
\* the command ends with a non-zero exit code
Interrupt ==
    /\ pc \in {"get_categories", "categories", "listing", "agents", "save",
               "dump"}
    /\ pc' = "interrupted"
    /\ session' = close(session)
    /\ exitCode' = 1
    /\ safe_request_taken
    /\ get_agents_taken
    /\ UNCHANGED <<file, run, agent_map, categories, ci, category_agents, ai,
                   all_agents, processed, lastDetail, enrichCalls, nsaves,
                   lastSaved, saveFaults, firstFinal, listings, stats>>
    /\ UNCHANGED <<driverUrl, siteVars>>

NextInterrupt ==
    \/ Next
    \/ Interrupt

SpecInterrupt == Init /\ [][NextInterrupt]_vars

\* the sites with at most one anchor on a listing page
CloseSites == {p \in Sites : Len(p[UrlX]) <= 1 /\ Len(p[UrlY]) <= 1}

\* update.json is empty or holds A with details
CloseFiles == {u \in UpdateFiles : DOMAIN u \subseteq {"A"}}

\* a run of the command on one of these sites
InitClose ==
    /\ Init
    /\ pages \in CloseSites
    /\ update_json \in CloseFiles

\* the interpreter runs the command on: while a step of the command can be
\* taken, one is taken (or the interrupt ends the run)
SpecClose == InitClose /\ [][NextInterrupt]_vars /\ WF_vars(Next)

(* ------------- the standalone crawler (crawl-src-windsurf.py) --------- *)

\* self.driver.get(self.base_url): the home page
HomeUrl == [base |-> BaseUrl, path |-> <<>>]

\* elem.text(): the texts inside the anchor, here its heading and paragraph
Text(b) == <<b.name, b.desc>>

\* the text of an anchor with nothing in it
EmptyText == <<"", "">>

\* the selector a[href^="/category"]
MatchesWsCategory(b) == Len(b.href) >= 1 /\ b.href[1] = "category"

\* elem.text().strip() or href.split('/')[-1].replace('-', ' ').title()
WsCategoryName(b) ==
    IF Text(b) # EmptyText THEN Text(b) ELSE <<b.href[Len(b.href)], "">>

RECURSIVE WsCategoriesFrom(_, _)
\* the loop over the links: if href and not any(skip in href.lower() ...)
WsCategoriesFrom(links, cats) ==
    IF links = <<>> THEN cats
    ELSE LET elem == Head(links)
         IN  IF elem.href # <<>> /\ ~Denylisted(elem.href)
             THEN WsCategoriesFrom(Tail(links),
                                   DictSet(cats, WsCategoryName(elem),
                                           urljoin(BaseUrl, elem.href)))
             ELSE WsCategoriesFrom(Tail(links), cats)

\* get_categories of the standalone crawler, on the page the browser shows
WsGetCategories(page) ==
    WsCategoriesFrom(SelectSeq(page, MatchesWsCategory), <<>>)

\* the selector a[href*="/agent/"]
MatchesWsAgent(b) == \E i \in 1..(Len(b.href) - 1) : b.href[i] = "agent"

\* the selector a[href*="/tools/"]
MatchesWsTools(b) == \E i \in 1..(Len(b.href) - 1) : b.href[i] = "tools"

\* current_count = len(blocks), taken before the alternative selector
WsCurrentCount(dom) == Len(SelectSeq(dom, MatchesWsAgent))

\* blocks: those of the first selector, of the alternative one if none
WsBlocksOf(dom) ==
    IF WsCurrentCount(dom) = 0 THEN SelectSeq(dom, MatchesWsTools)
    ELSE SelectSeq(dom, MatchesWsAgent)

\* Agent(name=name, url=url, source_url=category_url)
WsAgent(n, u, src) ==
    [name |-> n, url |-> u, source_url |-> src, description |-> NoneVal,
     image_url |-> NoneVal, tags |-> <<>>]

\* seen_urls: the urls of the agents appended so far
WsSeenUrls(agents) == {agents[i].url : i \in 1..Len(agents)}

RECURSIVE WsProcess(_, _, _)
\* "Process new blocks": a block that raises is logged, a block with a text
\* and a url that was not seen is appended
WsProcess(blocks, agents, category_url) ==
    IF blocks = <<>> THEN agents
    ELSE LET block == Head(blocks)
             name == Text(block)
             url == urljoin(BaseUrl, block.href)
         IN  IF block.fault
             THEN WsProcess(Tail(blocks), agents, category_url)
             ELSE IF name # EmptyText /\ url # NoUrl
                     /\ url \notin WsSeenUrls(agents)
             THEN WsProcess(Tail(blocks),
                            Append(agents, WsAgent(name, url, category_url)),
                            category_url)
             ELSE WsProcess(Tail(blocks), agents, category_url)

\* if len(seen_urls) == current_count: break
WsNoNewAgents(agents, current_count) ==
    Cardinality(WsSeenUrls(agents)) = current_count

\* what get_agent_details can meet once the page is there: the details are
\* extracted, the page has no name, or something raises inside the try
WsDetailOutcomes == {"ok", "no_name", "raises"}

\* the dict get_agent_details returns
WsDetails == [name |-> "N", description |-> "D", image_url |-> "img",
              tags |-> <<"t">>]

\* agent.description = details.get('description') and the two others
WsWithDetails(agent, details) ==
    [agent EXCEPT !.description = details.description,
                  !.image_url = details.image_url,
                  !.tags = details.tags]

\* self.stats[key] += n
Incremented(st, key, n) == [st EXCEPT ![key] = st[key] + n]

\* the variables of the scrape command that the standalone crawler has not
wsUnused == <<file, run, exitCode, agent_map, processed, lastDetail, nsaves,
              lastSaved, saveFaults, firstFinal, listings>>

\* scrape_agents starts with get_categories: the browser is started, the
\* home page is loaded and parsed, total_categories is set
WsStart ==
    /\ pc = "ws_start"
    /\ session' = "open"
    /\ driverUrl' = HomeUrl
    /\ categories' = WsGetCategories(pages[HomeUrl])
    /\ stats' = [stats EXCEPT !.total_categories =
                                 Len(WsGetCategories(pages[HomeUrl]))]
    /\ all_agents' = <<>>
    /\ ci' = 1
    /\ pc' = "ws_categories"
    /\ UNCHANGED <<category_agents, ai, enrichCalls>>
    /\ UNCHANGED <<wsUnused, siteVars, listingVars, fetchVars>>

\* get_agents_from_category is called: self.driver.get(category_url) and
\* some first part of the anchors of the page is in the DOM
WsEnterCategory ==
    /\ pc = "ws_categories"
    /\ ci <= Len(categories)
    /\ lurl' = categories[ci].url
    /\ driverUrl' = categories[ci].url
    /\ \E k \in 0..Len(pages[categories[ci].url]) : shown' = k
    /\ clicks' = 0
    /\ lresult' = <<>>
    /\ lpc' = "ws_loop"
    /\ pc' = "ws_listing"
    /\ UNCHANGED <<lastControl, stale>>
    /\ UNCHANGED <<session, categories, ci, category_agents, ai, all_agents,
                   enrichCalls, stats>>
    /\ UNCHANGED <<wsUnused, siteVars, fetchVars>>

\* the agents after "Process new blocks" of this turn of the loop
WsParsed == WsProcess(WsBlocksOf(Dom), lresult, lurl)

\* one turn of "while True" that ends at the button: the page is parsed,
\* then the wait for the button times out (except TimeoutException: break)
\* or the button is not displayed or not enabled (break)
WsTurnEnds ==
    /\ lpc = "ws_loop"
    /\ lresult' = WsParsed
    /\ \E c \in Controls :
          /\ ~Found(c) \/ Breaks(c)
          /\ lastControl' = c
    /\ lpc' = "ws_returned"
    /\ UNCHANGED <<lurl, shown, clicks, stale, driverUrl>>
    /\ UNCHANGED <<siteVars, scrapeVars, fetchVars>>

\* one turn of "while True" that clicks: the page is parsed, the button is
\* clicked and the page grows (or not); then the loop breaks if
\* len(seen_urls) == current_count and parses the page again otherwise
WsTurnClicks ==
    /\ lpc = "ws_loop"
    /\ clicks < budget
    /\ lresult' = WsParsed
    /\ \E c \in Controls :
          /\ Found(c)
          /\ ~Breaks(c)
          /\ lastControl' = c
    /\ clicks' = clicks + 1
    /\ \E k \in shown..Len(pages[lurl]) : shown' = k
    /\ lpc' = IF WsNoNewAgents(WsParsed, WsCurrentCount(Dom))
              THEN "ws_returned"
              ELSE "ws_loop"
    /\ UNCHANGED <<lurl, stale, driverUrl>>
    /\ UNCHANGED <<siteVars, scrapeVars, fetchVars>>

\* one turn of "while True" in which the click raises something that is not
\* a TimeoutException: the fault leaves scrape_agents and ends the program
WsClickRaises ==
    /\ pc = "ws_listing"
    /\ lpc = "ws_loop"
    /\ lresult' = WsParsed
    /\ \E c \in Controls :
          /\ Found(c)
          /\ ~Breaks(c)
          /\ lastControl' = c
    /\ lpc' = "ws_raised"
    /\ pc' = "ws_raised"
    /\ UNCHANGED <<lurl, shown, clicks, stale, driverUrl>>
    /\ UNCHANGED <<session, categories, ci, category_agents, ai, all_agents,
                   enrichCalls, stats>>
    /\ UNCHANGED <<wsUnused, siteVars, fetchVars>>

\* get_agents_from_category returns: total_agents grows by the length of
\* the list
WsListingReturns ==
    /\ pc = "ws_listing"
    /\ lpc = "ws_returned"
    /\ category_agents' = lresult
    /\ stats' = Incremented(stats, "total_agents", Len(lresult))
    /\ ai' = 1
    /\ pc' = "ws_agents"
    /\ get_agents_taken
    /\ UNCHANGED <<session, categories, ci, all_agents, enrichCalls>>
    /\ UNCHANGED <<wsUnused, driverUrl, siteVars, fetchVars>>

\* get_agent_details for the next agent returns: the details and
\* agents_with_details + 1, or None and failed_details + 1
WsDetailsReturn ==
    /\ pc = "ws_agents"
    /\ ai <= Len(category_agents)
    /\ driverUrl' = category_agents[ai].url
    /\ \E outcome \in WsDetailOutcomes :
          IF outcome = "ok"
          THEN /\ stats' = Incremented(stats, "agents_with_details", 1)
               /\ category_agents' =
                     [category_agents EXCEPT
                         ![ai] = WsWithDetails(category_agents[ai], WsDetails)]
          ELSE /\ stats' = Incremented(stats, "failed_details", 1)
               /\ UNCHANGED category_agents
    /\ enrichCalls' = enrichCalls + 1
    /\ ai' = ai + 1
    /\ UNCHANGED <<pc, session, categories, ci, all_agents>>
    /\ UNCHANGED <<wsUnused, siteVars, listingVars, fetchVars>>

\* get_agent_details for the next agent raises: self.driver.get(url) is
\* outside the try; the fault leaves scrape_agents and ends the program
WsDetailsRaise ==
    /\ pc = "ws_agents"
    /\ ai <= Len(category_agents)
    /\ enrichCalls' = enrichCalls + 1
    /\ pc' = "ws_raised"
    /\ UNCHANGED <<session, categories, ci, category_agents, ai, all_agents,
                   stats>>
    /\ UNCHANGED <<wsUnused, driverUrl, siteVars, listingVars, fetchVars>>

\* the inner loop is over: agents.extend(category_agents)
WsCategoryDone ==
    /\ pc = "ws_agents"
    /\ ai > Len(category_agents)
    /\ all_agents' = all_agents \o category_agents
    /\ ci' = ci + 1
    /\ pc' = "ws_categories"
    /\ UNCHANGED <<session, categories, category_agents, ai, enrichCalls,
                   stats>>
    /\ UNCHANGED <<wsUnused, driverUrl, siteVars, listingVars, fetchVars>>

\* the outer loop is over: the statistics are logged, the list is returned
WsFinish ==
    /\ pc = "ws_categories"
    /\ ci > Len(categories)
    /\ pc' = "ws_done"
    /\ UNCHANGED <<session, categories, ci, category_agents, ai, all_agents,
                   enrichCalls, stats>>
    /\ UNCHANGED <<wsUnused, driverUrl, siteVars, listingVars, fetchVars>>

\* the anchors of the listing pages: two items, an anchor with no text and
\* an anchor that only the alternative selector matches
WsBlocks ==
    {Block(<<"agent", "a">>, "A"), Block(<<"agent", "b">>, "B"),
     [Block(<<"agent", "c">>, "") EXCEPT !.desc = ""],
     Block(<<"tools", "t">>, "T")}

\* the home page links no category, one, two, or one and the blog
WsHomePages ==
    {<<>>, <<CatX>>, <<CatX, CatY>>,
     <<CatX, Block(<<"category", "blog">>, "Blog")>>}

\* the sites: a category that the home page does not link has an empty page
WsSites ==
    {p \in {(HomeUrl :> h) @@ (UrlX :> x) @@ (UrlY :> y) :
               h \in WsHomePages,
               x \in SeqsUpTo(WsBlocks, MaxItems),
               y \in SeqsUpTo(WsBlocks, MaxItems)} :
        /\ Len(p[UrlX]) + Len(p[UrlY]) <= MaxItems + 1
        /\ Len(p[HomeUrl]) < 1 => p[UrlX] = <<>>
        /\ p[HomeUrl] # <<CatX, CatY>> => p[UrlY] = <<>>}

InitWindsurf ==
    /\ pages \in WsSites
    /\ update_json = EmptyMap
    /\ budget = MaxClicks
    /\ driverUrl = NoUrl
    /\ FetchIdle
    /\ ListingIdle
    /\ file = NoFile
    /\ pc = "ws_start"
    /\ run = 1
    /\ session = "none"
    /\ exitCode = -1
    /\ agent_map = EmptyMap
    /\ categories = <<>>
    /\ ci = 0
    /\ category_agents = <<>>
    /\ ai = 0
    /\ all_agents = <<>>
    /\ processed = <<>>
    /\ lastDetail = NoDetail
    /\ enrichCalls = 0
    /\ nsaves = 0
    /\ lastSaved = <<>>
    /\ saveFaults = 0
    /\ firstFinal = NoFinal
    /\ listings = <<>>
    /\ stats = NoStats

NextWindsurf ==
    \/ WsStart
    \/ WsEnterCategory
    \/ WsTurnEnds
    \/ WsTurnClicks
    \/ WsClickRaises
    \/ WsListingReturns
    \/ WsDetailsReturn
    \/ WsDetailsRaise
    \/ WsCategoryDone
    \/ WsFinish

SpecWindsurf == InitWindsurf /\ [][NextWindsurf]_vars

(* ============================== claims ================================ *)

Fails(i) == outcomes[i] = "fail"

\* C1: a call of _safe_request with n >= 1 retries navigates once per
\* attempt, never makes more than n attempts, stops at the first attempt
\* that succeeds and returns the HTML of the url it was given; it returns
\* None only after exactly n failed attempts.
C1_RetryBudget ==
    /\ navs = Len(outcomes)
    /\ retries >= 1 => Len(outcomes) <= retries
    /\ \A i \in 1..Len(outcomes) :
          outcomes[i] = "ok" => i = Len(outcomes) /\ fpc = "returned"
    /\ (fpc = "returned" /\ retries >= 1) =>
          /\ Len(outcomes) >= 1
          /\ \A i \in 1..(Len(outcomes) - 1) : Fails(i)
          /\ IF outcomes[Len(outcomes)] = "ok"
             THEN fresult.kind = "html" /\ fresult.url = furl
             ELSE fresult = NoneVal /\ Len(outcomes) = retries

\* two failures, then the third attempt of three succeeds
C1_Witness ==
    /\ fpc = "returned"
    /\ retries = DefaultRetries
    /\ outcomes = <<"fail", "fail", "ok">>
    /\ fresult.kind = "html"

\* the fetch of the page of the category being listed has ended in None
ListingFetchFailed ==
    lpc = "fetch" /\ fpc = "returned" /\ fresult = NoneVal

\* C2: _safe_request never raises, whatever raises inside an attempt; when
\* it returns None, get_categories returns an empty mapping and
\* get_agents_from_category returns an empty list without a click, and the
\* scrape command goes on to the next category.
C2_FetchFailureIsNoData ==
    /\ [](fpc # "raised")
    /\ [][(pc = "get_categories" /\ fpc = "returned" /\ fresult = NoneVal)
            => (categories' = <<>> /\ pc' = "categories")]_vars
    /\ [][ListingFetchFailed
            => (lpc' = "returned" /\ lresult' = <<>> /\ clicks' = 0)]_vars
    /\ [][(pc = "listing" /\ lpc = "returned" /\ lresult = <<>>)
            => (pc' = "agents" /\ category_agents' = <<>>
                /\ ai' > Len(category_agents') /\ exitCode' = -1)]_vars
    /\ [][(pc = "agents" /\ ai > Len(category_agents))
            => (pc' = "categories" /\ ci' = ci + 1
                /\ all_agents' = all_agents /\ exitCode' = -1)]_vars

\* the page of the first of two categories has anchors, every navigation to
\* it failed, nothing was processed and the command is at the second one
C2_Witness ==
    /\ pc = "categories"
    /\ Len(categories) = 2
    /\ ci = 2
    /\ pages[categories[1].url] # <<>>
    /\ driverUrl = CategoriesUrl
    /\ processed = <<>>
    /\ exitCode = -1

\* the item's name is in update.json and the object there has details
InSnapshotWithInfo(name) ==
    IF name \in DOMAIN update_json THEN update_json[name].info # JNull
    ELSE FALSE

\* C3: every processed item was passed to get_agent_details if and only if
\* its name is absent from update.json or its object there has a null info;
\* every other item's result is the loaded object, unchanged.
C3_ReuseIffSnapshotHasInfo ==
    /\ Len(all_agents) = Len(processed)
    /\ enrichCalls = Cardinality({i \in 1..Len(processed) :
                                    processed[i].enriched})
    /\ \A i \in 1..Len(processed) :
          LET name == processed[i].stub.name
          IN  /\ processed[i].enriched <=> ~InSnapshotWithInfo(name)
              /\ ~processed[i].enriched =>
                    /\ all_agents[i] = agent_map[name]
                    /\ Encode(all_agents[i]) = update_json[name]

\* one item was reused and one whose object has a null info was enriched
C3_Witness ==
    /\ \E i \in 1..Len(processed) : ~processed[i].enriched
    /\ \E i \in 1..Len(processed) :
          /\ processed[i].enriched
          /\ processed[i].stub.name \in DOMAIN update_json

\* the first run ended normally and this run, ended too, listed the same
\* items
SecondRunDone ==
    /\ run = 2
    /\ pc = "done"
    /\ exitCode = 0
    /\ firstFinal.exitCode = 0
    /\ firstFinal.stubs = [i \in 1..Len(processed) |-> processed[i].stub]

\* C4: a second run over the same site reuses every item, calls
\* get_agent_details for none and leaves the same JSON array as the first.
C4_SecondRunReusesAll ==
    SecondRunDone => enrichCalls = 0 /\ file = firstFinal.file

\* what can be read back from the file
Persisted == IF file.st = "complete" THEN file.items ELSE <<>>

IsPrefix(s, t) == Len(s) <= Len(t) /\ s = Prefix(t, Len(s))

\* C5: save_progress is called after every item with the list of the items
\* processed so far, so at every point the file lacks at most the item
\* whose save is in progress.
C5_LosesAtMostInFlight ==
    /\ nsaves = Len(all_agents)
    /\ lastSaved = all_agents
    /\ IsPrefix(Persisted, EncodeAll(all_agents))
    /\ Len(Persisted) >= Len(all_agents) - 1

\* C6: at every point at which the run can be interrupted, the file, once
\* written, holds a complete array of fully processed items.
C6_FileNeverPartial ==
    file.st # "absent" =>
        file.st = "complete" /\ IsPrefix(file.items, EncodeAll(all_agents))

\* C7: get_agent_details returns to its caller whatever happens inside; the
\* agent it returns has the name, url, description and source_url of the
\* stub; its info is still None when the fetch of the text or the
\* extraction failed, and is the record the extraction returned otherwise.
C7_DetailsNeverRaise ==
    lastDetail.kind = "call" =>
        LET stub == lastDetail.stub
            got == lastDetail.result
        IN  /\ pc \in {"save", "dump"}
            /\ exitCode = -1
            /\ all_agents[Len(all_agents)] = got
            /\ stub.info = NoneVal
            /\ got.name = stub.name
            /\ got.url = stub.url
            /\ got.description = stub.description
            /\ got.source_url = stub.source_url
            /\ got.kind = stub.kind
            /\ IF lastDetail.outcome = "ok" THEN got.info = lastDetail.info
               ELSE got.info = NoneVal

\* the extraction failed for a stub and the stub came back without details
C7_Witness ==
    /\ lastDetail.kind = "call"
    /\ lastDetail.outcome = "extract_fails"
    /\ lastDetail.result = lastDetail.stub

\* for attempt in range(4), of get_agent_info
InfoAttempts == 4

\* C8: an enrichment that ends without details has made 4 attempts of the
\* fetch and the extraction.
C8_FourAttempts ==
    (lastDetail.kind = "call" /\ lastDetail.outcome # "ok") =>
        lastDetail.attempts = InfoAttempts

\* C9: a run that found no category does not end with exit code 0.
C9_NoCategoriesFails ==
    (pc = "done" /\ categories = <<>>) => exitCode # 0

RECURSIVE FirstPerUrl(_, _, _, _)
\* the named anchors of a page that can be read, the first of every url, in
\* document order
FirstPerUrl(blocks, agents, urls, category_url) ==
    IF blocks = <<>> THEN agents
    ELSE LET b == Head(blocks)
             u == urljoin(BaseUrl, b.href)
         IN  IF b.fault \/ b.name = "" \/ u \in urls
             THEN FirstPerUrl(Tail(blocks), agents, urls, category_url)
             ELSE FirstPerUrl(Tail(blocks),
                              Append(agents,
                                     Agent(b.name, u, b.desc, category_url)),
                              urls \cup {u}, category_url)

\* C10: get_agents_from_category returns one stub per url: that of the
\* first anchor with this url that has a name, in the order of the page.
C10_OneStubPerUrl ==
    lpc = "returned" =>
        /\ \A i, j \in 1..Len(lresult) :
              lresult[i].url = lresult[j].url => i = j
        /\ lresult = FirstPerUrl(SelectSeq(Dom, MatchesAgent), <<>>, {}, lurl)

\* the links of the categories page that are categories: the path matches
\* and holds no denylisted fragment
Qualifying(page) ==
    SelectSeq(page, LAMBDA b : MatchesCategory(b) /\ ~Denylisted(b.href))

\* C11: get_categories returns one entry for every link of the categories
\* page that matches the category path and is not denylisted, and no url it
\* returns holds a denylisted fragment (blog, sponsor, submit, login).
C11_DenylistedLinksSkipped ==
    [][(pc = "get_categories" /\ fpc = "returned" /\ Truthy(fresult)) =>
        /\ Len(categories') = Len(Qualifying(pages[fresult.url]))
        /\ \A i \in 1..Len(categories') :
              ~Denylisted(categories'[i].url.path)]_vars

\* C12: a check of the pagination loop that finds the "Load More" button
\* absent, not displayed or not enabled ends the loop at that check with no
\* click and the page as it was; the list returned is extracted from the
\* page as it is then (with zero clicks if that was the first check).
C12_UnavailableControlEndsLoop ==
    /\ [][(lpc = "paginate"
           /\ lastControl' \in {"absent", "hidden", "disabled"})
            => (lpc' = "extract" /\ clicks' = clicks /\ shown' = shown
                /\ driverUrl' = driverUrl)]_vars
    /\ [][(lpc = "extract" /\ lpc' = "returned")
            => (clicks' = clicks /\ lresult' = ExtractAgents(Dom, lurl))]_vars

\* the first check found the button disabled: no click was made and the
\* anchors the page showed are about to be extracted
C12_Witness ==
    /\ lpc = "extract"
    /\ lastControl = "disabled"
    /\ clicks = 0
    /\ shown > 0

\* C13: the pagination loop does not click again once two consecutive
\* clicks have added no item url (stagnation guard).
C13_StagnationGuard == stale <= 2

\* C14: one call of get_agents_from_category never makes more than 200
\* "Load More" clicks, whatever the page does.
C14_ClickCap == clicks <= 200

RECURSIVE Flatten(_)
\* the concatenation of a sequence of lists
Flatten(ls) == IF ls = <<>> THEN <<>> ELSE Head(ls) \o Flatten(Tail(ls))

\* the stubs processed so far, in the order they were processed
Stubs == [i \in 1..Len(processed) |-> processed[i].stub]

\* how many items of the current category have been appended
DoneInCategory == IF pc \in {"save", "dump"} THEN ai ELSE ai - 1

\* C15: the result list follows the stubs processed; these are, in order,
\* the listings of the categories before the current one, in discovery
\* order, then the first items of the current listing; every listing is
\* that of the category at its place; a complete file holds a prefix of
\* the result list.
C15_OutputOrder ==
    /\ Len(listings) <= Len(categories)
    /\ \A c \in 1..Len(listings) : \A k \in 1..Len(listings[c]) :
          listings[c][k].source_url = categories[c].url
    /\ Len(all_agents) = Len(processed)
    /\ \A i \in 1..Len(processed) : all_agents[i].name = processed[i].stub.name
    /\ IsPrefix(Stubs, Flatten(listings))
    /\ pc \in {"agents", "save", "dump"} =>
          /\ Len(listings) = ci
          /\ listings[ci] = category_agents
          /\ Stubs = Flatten(Prefix(listings, ci - 1))
                       \o Prefix(category_agents, DoneInCategory)
    /\ pc \in {"categories", "listing"} =>
          /\ Len(listings) = ci - 1
          /\ Stubs = Flatten(listings)
    /\ (pc = "done" /\ exitCode = 0) =>
          /\ Len(listings) = Len(categories)
          /\ Stubs = Flatten(listings)
    /\ file.st = "complete" => IsPrefix(file.items, EncodeAll(all_agents))

\* a run has ended that processed an item of each of two categories
C15_Witness ==
    /\ pc = "done"
    /\ exitCode = 0
    /\ Len(listings) = 2
    /\ listings[1] # <<>>
    /\ listings[2] # <<>>
    /\ Len(all_agents) = 2

\* C16: no two entries of the result list have the same url, also when an
\* item is listed under two categories; so no complete file has two
\* objects with one url. (Stated for the runs that reuse no entry of
\* update.json, where every entry has the url of its stub.)
C16_UrlsUnique ==
    (\A k \in 1..Len(processed) : processed[k].enriched) =>
        /\ \A i, j \in 1..Len(all_agents) :
              all_agents[i].url = all_agents[j].url => i = j
        /\ file.st = "complete" =>
              \A i, j \in 1..Len(file.items) :
                 file.items[i].url = file.items[j].url => i = j

\* C17: an attempt that saw fewer than 1000 characters is a failed attempt
\* (it is followed by the next attempt or, if it was the last, by None), and
\* every HTML value _safe_request returns has at least 1000 characters,
\* also when the page changes between the length check and the read that is
\* returned.
C17_LengthGuard ==
    /\ (lenChecked # -1 /\ TooShort(lenChecked)) =>
          /\ lastCause = "too_short"
          /\ outcomes[Len(outcomes)] = "fail"
          /\ fpc = "returned" => fresult = NoneVal /\ Len(outcomes) = retries
    /\ (fpc = "returned" /\ fresult # NoneVal) =>
          /\ outcomes[Len(outcomes)] = "ok"
          /\ ~TooShort(lenChecked)
          /\ ~TooShort(fresult.len)

\* a call of save_progress ends in a failure
SaveFailed == pc \in {"save", "dump"} /\ saveFaults' = saveFaults + 1

\* C18: a failed save_progress is absorbed: the run goes on with the next
\* item, the result list and the exit code untouched; a save that succeeds
\* writes the whole result list, the items of the failed saves included.
C18_SaveFailureAbsorbed ==
    /\ [][SaveFailed =>
            /\ pc' = "agents"
            /\ ai' = ai + 1
            /\ all_agents' = all_agents
            /\ processed' = processed
            /\ session' = "open"
            /\ exitCode' = -1]_vars
    /\ [][(pc = "dump" /\ file'.st = "complete") =>
            /\ Len(file'.items) = Len(processed)
            /\ \A i \in 1..Len(all_agents) :
                  file'.items[i] = Encode(all_agents[i])]_vars

\* the save of the first item failed and the save of the second one wrote
\* both items
C18_Witness ==
    /\ saveFaults = 1
    /\ nsaves = 2
    /\ file.st = "complete"
    /\ Len(file.items) = 2
    /\ pc = "agents"

\* no item is being processed: the run is between two items, or before the
\* first or after the last of a category
BetweenItems ==
    pc \in {"get_categories", "categories", "listing", "agents"}

\* C19: a cancellation takes effect between two items only, and after it
\* the file holds every item processed before.
C19_CancelBetweenItems ==
    /\ [][pc' = "interrupted" => BetweenItems]_vars
    /\ [](pc = "interrupted" => Persisted = EncodeAll(all_agents))

\* the anchors the selector matches, in the order of the page
Candidates == SelectSeq(Dom, MatchesAgent)

\* the anchor can be read and has a name
ValidAnchor(b) == ~b.fault /\ b.name # ""

\* the valid anchor at place i is the first valid one with its href
FirstValid(i) ==
    /\ ValidAnchor(Candidates[i])
    /\ \A j \in 1..(i - 1) :
          ValidAnchor(Candidates[j]) =>
              Candidates[j].href # Candidates[i].href

\* the places of the anchors to be returned, in order
Kept == SelectSeq([i \in 1..Len(Candidates) |-> i], FirstValid)

\* C20: every stub get_agents_from_category returns has a name and a url;
\* an anchor without a name and an anchor that cannot be read are left out
\* and nothing else is: the stubs are those of the valid anchors, the first
\* of every href, in the order of the page.
C20_IsolateAndContinue ==
    lpc = "returned" =>
        /\ \A k \in 1..Len(lresult) :
              /\ lresult[k].name # ""
              /\ lresult[k].url # NoUrl
              /\ lresult[k].url.path # <<>>
        /\ Len(lresult) = Len(Kept)
        /\ \A k \in 1..Len(Kept) :
              LET b == Candidates[Kept[k]]
              IN  lresult[k] =
                     Agent(b.name, urljoin(BaseUrl, b.href), b.desc, lurl)

\* the page shows an anchor that cannot be read, then one without a name,
\* then a valid one with the same href, and the call returned that one
C20_Witness ==
    /\ lpc = "returned"
    /\ Len(Dom) = 3
    /\ Dom[1].fault
    /\ Dom[2].name = "" /\ Dom[2].href = Dom[1].href
    /\ ValidAnchor(Dom[3]) /\ Dom[3].href = Dom[1].href
    /\ Len(lresult) = 1

\* the wait the schedule names after the i-th failed attempt
ScheduledWait(i) == IF i = 1 THEN 1 ELSE IF i = 2 THEN 2 ELSE 3

\* C21: _safe_request waits 1 unit after the first failed attempt, 2 after
\* the second and 3 after every later one, never more than 3; it waits once
\* after every failed attempt but the last of the budget, and not after a
\* success.
C21_BackoffSchedule ==
    /\ \A i \in 1..Len(sleeps) :
          /\ sleeps[i] = ScheduledWait(i)
          /\ sleeps[i] <= 3
          /\ Fails(i)
    /\ fpc = "attempt" => Len(sleeps) = Len(outcomes)
    /\ (fpc = "returned" /\ outcomes # <<>>) =>
          Len(sleeps) = Len(outcomes) - 1

\* four attempts failed and were waited for, the fifth succeeded
C21_Witness ==
    /\ fpc = "returned"
    /\ outcomes = <<"fail", "fail", "fail", "fail", "ok">>
    /\ sleeps = <<1, 2, 3, 3>>

\* C22: every entry of the result list has the url and the source_url of
\* the stub it was made for, whether it was enriched or reused.
C22_EntryMatchesStub ==
    /\ Len(all_agents) = Len(processed)
    /\ \A i \in 1..Len(processed) :
          /\ all_agents[i].url = processed[i].stub.url
          /\ all_agents[i].source_url = processed[i].stub.source_url

\* the urls of the named items that the page holds now
WsExtractable == WsSeenUrls(WsProcess(WsBlocksOf(Dom), <<>>, lurl))

\* C23: when get_agents_from_category of the standalone crawler returns,
\* its result has the url of every named item that the page holds at that
\* moment, the items that the last click loaded included
C23_ResultCoversPage ==
    lpc = "ws_returned" => WsExtractable \subseteq WsSeenUrls(lresult)

\* a call of get_agent_details of the standalone crawler
WsDetailsCalled == pc = "ws_agents" /\ enrichCalls' = enrichCalls + 1

\* exactly one of agents_with_details and failed_details grows, by one
WsCountsOne ==
    \/ /\ stats'.agents_with_details = stats.agents_with_details + 1
       /\ stats'.failed_details = stats.failed_details
    \/ /\ stats'.agents_with_details = stats.agents_with_details
       /\ stats'.failed_details = stats.failed_details + 1

\* C24: every call of get_agent_details of the standalone crawler adds
\* one to exactly one of agents_with_details and failed_details; at the
\* end of the run their sum is total_agents, the sum of the lengths of the
\* listings, and total_categories is the number of categories discovered
C24_CrawlStats ==
    [][/\ WsDetailsCalled => WsCountsOne
       /\ pc' = "ws_done" =>
             /\ stats'.agents_with_details + stats'.failed_details
                   = stats'.total_agents
             /\ stats'.total_agents = Len(all_agents')
             /\ stats'.total_categories = Len(categories')]_vars

\* the positions at which the scrape command has ended
Ended == {"done", "interrupted"}

\* C25: once the scrape command has made the browser session, the session
\* is closed in the end, and exactly once, however the command ends (it
\* completes, it finds no category, a fault or the interrupt leaves any of
\* its parts); nothing navigates or touches the page after the close
C25_SessionClosedOnce ==
    /\ [](pc \in Ended => session = "closed")
    /\ [][/\ (pc \notin Ended /\ pc' \in Ended) =>
                (session = "open" /\ session' = "closed")
          /\ session' # session =>
                \/ session = "none" /\ session' = "open"
                \/ session = "open" /\ session' = "closed" /\ pc' \in Ended
          /\ session = "closed" =>
                /\ session' = "closed"
                /\ driverUrl' = driverUrl
                /\ navs' = navs
                /\ clicks' = clicks
                /\ shown' = shown]_vars
    /\ (session = "open") ~> (session = "closed")

\* a fault left the listing of the second category after an item of the
\* first was enriched and saved, and the session is closed
C25_Witness ==
    /\ pc = "done"
    /\ exitCode = 1
    /\ session = "closed"
    /\ ci = 2
    /\ enrichCalls >= 1
    /\ nsaves >= 1

====
